---- MODULE Spec2Model ----
(***************************************************************************)
(* Compliance evaluation engine of src/src/application/demo1.py.           *)
(*                                                                         *)
(* The three input tables are sequences of rows (a pandas DataFrame keeps  *)
(* its rows in order, and the order decides which duplicate is kept):      *)
(*   audit_data         [customer_id, program_type, group, value]          *)
(*   condition_data     [group, program_type, condition_min_value,         *)
(*                       group_min_value]                                  *)
(*   registration_data  [customer_id, program_type, qty]                   *)
(* The result dictionaries of the code are functions whose DOMAIN is the   *)
(* set of keys; a key the code never writes is absent from the DOMAIN.     *)
(* The 'message' and 'score' entries are formatted text derived from the   *)
(* other entries and are left out.                                         *)
(*                                                                         *)
(* main() runs the engine and hands the returned dictionary to             *)
(* save_results_to_database, which inserts rows into three result tables.  *)
(* A table is a bag of rows (the IDENTITY id and processed_date columns    *)
(* are left out): sink holds the three tables and outlives a run of main.  *)
(* previous_results lists what the earlier runs of main returned.          *)
(*                                                                         *)
(* The repository also holds the database layer (src/database.py), the     *)
(* evaluation service built on it (src/business_logic.py) and the layered  *)
(* rewrite of that service (src/src/domain, src/src/application/use_cases).*)
(* A call on one of these components is one step: repo holds the rows      *)
(* behind the repositories, request the call and its arguments, response   *)
(* what the call returned or raised, and trace the calls it made on its    *)
(* collaborators, in order.                                                *)
(***************************************************************************)
EXTENDS Integers, Sequences, FiniteSets, Bags, TLC

VARIABLES audit_data, condition_data, registration_data, observed,
          all_results, customer_idx, pc, sink, previous_results,
          repo, request, response, trace

vars == <<audit_data, condition_data, registration_data, observed,
          all_results, customer_idx, pc, sink, previous_results,
          repo, request, response, trace>>

\* the variables of the engine and of main
engine_vars == <<audit_data, condition_data, registration_data, observed,
                 all_results, customer_idx, pc, sink, previous_results>>

\* the variables of a call on the database layer or on a service
call_vars == <<repo, request, response, trace>>

(***************************************************************************)
(* Identifiers.  groupby iterates its keys in sorted order; the two        *)
(* sequences give that order.                                              *)
(***************************************************************************)
CustomerOrder == <<"CUST_1", "CUST_2">>
GroupOrder == <<"GROUP_A", "GROUP_B">>
Customers == {CustomerOrder[i] : i \in DOMAIN CustomerOrder}
Groups == {GroupOrder[i] : i \in DOMAIN GroupOrder}
FAKE_PICTURE == "fake_picture"
AuditPrograms == {FAKE_PICTURE, "PROG_1"}
RulePrograms == {"PROG_1", "PROG_2"}

SeqUpTo(S, n) == UNION {[1..k -> S] : k \in 0..n}

SeqFromTo(S, m, n) == UNION {[1..k -> S] : k \in m..n}

EmptyDict == [k \in {} |-> k]

\* a plausible slip: d.setdefault(key, value), which keeps the first value
DictSetDefault(d, key, value) ==
    [k \in DOMAIN d \cup {key} |-> IF k \in DOMAIN d THEN d[k] ELSE value]

\* d[key] = value of a Python dict
DictSet(d, key, value) ==
    [k \in DOMAIN d \cup {key} |-> IF k = key THEN value ELSE d[k]]

(***************************************************************************)
(* Program evaluator                                                       *)
(***************************************************************************)
handle_fake_picture_program(audit_value) ==
    IF audit_value > 0
    THEN [program_type |-> FAKE_PICTURE, pass_status |-> "FAIL",
          reason |-> "FAKE_PICTURE_DETECTED", audit_value |-> audit_value]
    ELSE [program_type |-> FAKE_PICTURE, pass_status |-> "PASS",
          reason |-> "NO_FAKE_PICTURE", audit_value |-> audit_value]

Max0(x) == IF x > 0 THEN x ELSE 0

\* a plausible slip: the threshold is not scaled by the registered quantity
RequiredValueUnscaled(condition_min_value, registration_qty) ==
    condition_min_value

RequiredValue(condition_min_value, registration_qty) ==
    condition_min_value * registration_qty

handle_normal_program(program_type, audit_value, registration_qty, group_conditions) ==
    LET program_condition ==
            SelectSeq(group_conditions, LAMBDA r : r.program_type = program_type)
    IN  IF program_condition = <<>>
        THEN [program_type |-> program_type, pass_status |-> "FAIL",
              reason |-> "NO_CONDITION", audit_value |-> audit_value,
              required_value |-> 0]
        ELSE LET condition_min_value == program_condition[1].condition_min_value
                 required_value == RequiredValue(condition_min_value, registration_qty)
             IN  [program_type |-> program_type,
                  pass_status |-> IF audit_value >= required_value
                                  THEN "PASS" ELSE "FAIL",
                  reason |-> "NORMAL_PROCESSING",
                  audit_value |-> audit_value,
                  required_value |-> required_value,
                  registration_qty |-> registration_qty,
                  condition_min_value |-> condition_min_value,
                  deficit |-> Max0(required_value - audit_value)]

\* a plausible slip: the fake_picture branch is missing from the dispatch
EvaluateProgramRowNoDispatch(program_row, group_conditions) ==
    handle_normal_program(program_row.program_type, program_row.value,
                          program_row.qty, group_conditions)

\* the dispatch in the loop body of process_single_group
EvaluateProgramRow(program_row, group_conditions) ==
    IF program_row.program_type = FAKE_PICTURE
    THEN handle_fake_picture_program(program_row.value)
    ELSE handle_normal_program(program_row.program_type, program_row.value,
                               program_row.qty, group_conditions)

(***************************************************************************)
(* Group aggregator                                                        *)
(***************************************************************************)
\* a plausible slip: the increment is outside the if
CountPassedAlways(passed_programs, program_result) ==
    passed_programs + 1

\* if program_result['pass_status'] == 'PASS': passed_programs += 1
CountPassed(passed_programs, program_result) ==
    IF program_result.pass_status = "PASS"
    THEN passed_programs + 1
    ELSE passed_programs

\* the for loop over group_data.iterrows(): acc carries program_results and
\* passed_programs from one iteration to the next
RECURSIVE GroupLoop(_, _, _, _)
GroupLoop(group_data, i, group_conditions, acc) ==
    IF i > Len(group_data)
    THEN acc
    ELSE LET program_row == group_data[i]
             program_result == EvaluateProgramRow(program_row, group_conditions)
         IN  GroupLoop(group_data, i + 1, group_conditions,
                 [program_results |->
                      DictSet(acc.program_results, program_row.program_type,
                              program_result),
                  passed_programs |->
                      CountPassed(acc.passed_programs, program_result)])

\* a plausible slip: > for >=
GroupStatusStrict(passed_programs, group_min_value) ==
    IF passed_programs > group_min_value THEN "PASS" ELSE "FAIL"

\* a plausible slip: the rules are not filtered by group
GroupConditionsUnfiltered(conditions, group_name) ==
    conditions

\* condition_data[condition_data['group'] == group_name]
GroupConditions(conditions, group_name) ==
    SelectSeq(conditions, LAMBDA r : r.group = group_name)

GroupStatus(passed_programs, group_min_value) ==
    IF passed_programs >= group_min_value THEN "PASS" ELSE "FAIL"

process_single_group(group_name, group_data, conditions) ==
    LET group_conditions == GroupConditions(conditions, group_name)
    IN  IF group_conditions = <<>>
        THEN [group |-> group_name, group_status |-> "FAIL",
              reason |-> "NO_CONDITIONS", program_results |-> EmptyDict]
        ELSE LET done == GroupLoop(group_data, 1, group_conditions,
                             [program_results |-> EmptyDict, passed_programs |-> 0])
                 group_min_value == group_conditions[1].group_min_value
             IN  [group |-> group_name,
                  group_status |-> GroupStatus(done.passed_programs, group_min_value),
                  passed_programs |-> done.passed_programs,
                  required_programs |-> group_min_value,
                  program_results |-> done.program_results]

(***************************************************************************)
(* Customer aggregator                                                     *)
(***************************************************************************)
\* a plausible slip: one passing group is enough
determine_overall_status_any(group_results) ==
    IF \E g \in DOMAIN group_results : group_results[g].group_status = "PASS"
    THEN "PASS"
    ELSE "FAIL"

determine_overall_status(group_results) ==
    IF \E g \in DOMAIN group_results : group_results[g].group_status = "FAIL"
    THEN "FAIL"
    ELSE "PASS"

(***************************************************************************)
(* Matcher                                                                 *)
(***************************************************************************)
\* the rows pd.merge(how='inner') yields for one left row, in right order
RECURSIVE MergeRow(_, _, _)
MergeRow(a, regs, j) ==
    IF j > Len(regs)
    THEN <<>>
    ELSE (IF regs[j].customer_id = a.customer_id
             /\ regs[j].program_type = a.program_type
          THEN <<[customer_id |-> a.customer_id, program_type |-> a.program_type,
                  group |-> a.group, value |-> a.value, qty |-> regs[j].qty]>>
          ELSE <<>>)
         \o MergeRow(a, regs, j + 1)

\* pd.merge(customer_audit, customer_registration,
\*          on=['customer_id', 'program_type'], how='inner'): left order kept
RECURSIVE Merge(_, _, _)
Merge(customer_audit, customer_registration, i) ==
    IF i > Len(customer_audit)
    THEN <<>>
    ELSE MergeRow(customer_audit[i], customer_registration, 1)
         \o Merge(customer_audit, customer_registration, i + 1)

\* the categories of the 'group' column: astype('category') in
\* optimize_data_for_performance takes them from the whole audit table
GroupCategories(audit) == {audit[i].group : i \in DOMAIN audit}

\* the keys merged_data.groupby('group') iterates.  With observed groups only
\* (object dtype, or pandas >= 3) these are the groups present in merged_data;
\* with a categorical column under pandas < 3 (observed=False by default) every
\* category is iterated, an absent one with an empty frame.
GroupKeys(merged_data, categories, obs) ==
    IF obs
    THEN {merged_data[i].group : i \in DOMAIN merged_data}
    ELSE categories

\* the for loop over merged_data.groupby('group'), keys in sorted order
RECURSIVE CustomerGroupLoop(_, _, _, _, _)
CustomerGroupLoop(merged_data, keys, k, conditions, group_results) ==
    IF k > Len(GroupOrder)
    THEN group_results
    ELSE LET group_name == GroupOrder[k]
             group_data == SelectSeq(merged_data, LAMBDA r : r.group = group_name)
         IN  CustomerGroupLoop(merged_data, keys, k + 1, conditions,
                 IF group_name \in keys
                 THEN DictSet(group_results, group_name,
                              process_single_group(group_name, group_data, conditions))
                 ELSE group_results)

\* a plausible slip: the registrations are not filtered by customer
CustomerRegistrationUnfiltered(registrations, customer_id) ==
    registrations

\* registration_data[registration_data['customer_id'] == customer_id]
CustomerRegistration(registrations, customer_id) ==
    SelectSeq(registrations, LAMBDA r : r.customer_id = customer_id)

process_single_customer(customer_id, customer_audit, conditions, registrations, categories, obs) ==
    LET customer_registration == CustomerRegistration(registrations, customer_id)
        merged_data == Merge(customer_audit, customer_registration, 1)
    IN  IF customer_registration = <<>>
        THEN [customer_id |-> customer_id, overall_status |-> "FAIL",
              reason |-> "NO_REGISTRATION", group_results |-> EmptyDict]
        ELSE IF merged_data = <<>>
        THEN [customer_id |-> customer_id, overall_status |-> "FAIL",
              reason |-> "NO_AUDIT_DATA", group_results |-> EmptyDict]
        ELSE LET group_results ==
                     CustomerGroupLoop(merged_data,
                         GroupKeys(merged_data, categories, obs), 1,
                         conditions, EmptyDict)
             IN  [customer_id |-> customer_id,
                  overall_status |-> determine_overall_status(group_results),
                  reason |-> "PROCESSED",
                  group_results |-> group_results]

(***************************************************************************)
(* Batch runner                                                            *)
(***************************************************************************)
\* audit_data.groupby('customer_id'): the customers that own an audit row,
\* in sorted order
customer_groups(audit) ==
    SelectSeq(CustomerOrder,
              LAMBDA c : \E i \in DOMAIN audit : audit[i].customer_id = c)

\* a plausible slip: the registrations of a processed customer are dropped
\* from the table in place
ProcessNextCustomerConsuming ==
    /\ pc = "loop"
    /\ customer_idx < Len(customer_groups(audit_data))
    /\ LET customer_id == customer_groups(audit_data)[customer_idx + 1]
           customer_audit ==
               SelectSeq(audit_data, LAMBDA r : r.customer_id = customer_id)
           customer_result ==
               process_single_customer(customer_id, customer_audit,
                   condition_data, registration_data,
                   GroupCategories(audit_data), observed)
       IN  /\ all_results' = DictSet(all_results, customer_id, customer_result)
           /\ registration_data' =
                  SelectSeq(registration_data, LAMBDA r : r.customer_id # customer_id)
    /\ customer_idx' = customer_idx + 1
    /\ UNCHANGED <<audit_data, condition_data, observed, pc, sink, previous_results>>
    /\ UNCHANGED call_vars

\* one iteration of the for loop of process_audit_for_all_customers
ProcessNextCustomer ==
    /\ pc = "loop"
    /\ customer_idx < Len(customer_groups(audit_data))
    /\ LET customer_id == customer_groups(audit_data)[customer_idx + 1]
           customer_audit ==
               SelectSeq(audit_data, LAMBDA r : r.customer_id = customer_id)
           customer_result ==
               process_single_customer(customer_id, customer_audit,
                   condition_data, registration_data,
                   GroupCategories(audit_data), observed)
       IN  all_results' = DictSet(all_results, customer_id, customer_result)
    /\ customer_idx' = customer_idx + 1
    /\ UNCHANGED <<audit_data, condition_data, registration_data, observed, pc,
                   sink, previous_results>>
    /\ UNCHANGED call_vars

\* the loop is over: return all_results
ReturnResults ==
    /\ pc = "loop"
    /\ customer_idx = Len(customer_groups(audit_data))
    /\ pc' = "returned"
    /\ UNCHANGED <<audit_data, condition_data, registration_data, observed,
                   all_results, customer_idx, sink, previous_results>>
    /\ UNCHANGED call_vars

Next == ProcessNextCustomer \/ ReturnResults

(***************************************************************************)
(* Result sink: save_results_to_database, called by main                   *)
(***************************************************************************)
EmptySink ==
    [audit_customer_results |-> EmptyBag,
     audit_group_results |-> EmptyBag,
     audit_program_results |-> EmptyBag]

\* d.get(key, default)
Get(d, key, default) == IF key \in DOMAIN d THEN d[key] ELSE default

\* the (group, program) keys of the program verdicts a customer result holds
ProgramKeys(result) ==
    UNION {{<<g, p>> : p \in DOMAIN result.group_results[g].program_results} :
              g \in DOMAIN result.group_results}

\* a plausible slip: any verdict of the sentinel program raises the flag
fake_picture_detected_any(result) ==
    \E gp \in ProgramKeys(result) :
        result.group_results[gp[1]].program_results[gp[2]].program_type = FAKE_PICTURE

\* any(pr['program_type'] == 'fake_picture' and pr['pass_status'] == 'FAIL' ...)
fake_picture_detected(result) ==
    \E gp \in ProgramKeys(result) :
        LET pr == result.group_results[gp[1]].program_results[gp[2]]
        IN  pr.program_type = FAKE_PICTURE /\ pr.pass_status = "FAIL"

\* a plausible slip: passed_groups counts every group
customer_row_all_groups(customer_id, result) ==
    [customer_id |-> customer_id,
     overall_status |-> result.overall_status,
     reason |-> result.reason,
     total_groups |-> Cardinality(DOMAIN result.group_results),
     passed_groups |-> Cardinality(DOMAIN result.group_results),
     total_programs |-> Cardinality(ProgramKeys(result)),
     passed_programs |->
         Cardinality({gp \in ProgramKeys(result) :
             result.group_results[gp[1]].program_results[gp[2]].pass_status = "PASS"}),
     fake_picture_detected |-> IF fake_picture_detected(result) THEN 1 ELSE 0]

\* the tuple appended to customer_data
customer_row(customer_id, result) ==
    [customer_id |-> customer_id,
     overall_status |-> result.overall_status,
     reason |-> result.reason,
     total_groups |-> Cardinality(DOMAIN result.group_results),
     passed_groups |->
         Cardinality({g \in DOMAIN result.group_results :
                         result.group_results[g].group_status = "PASS"}),
     total_programs |-> Cardinality(ProgramKeys(result)),
     passed_programs |->
         Cardinality({gp \in ProgramKeys(result) :
             result.group_results[gp[1]].program_results[gp[2]].pass_status = "PASS"}),
     fake_picture_detected |-> IF fake_picture_detected(result) THEN 1 ELSE 0]

\* the tuple appended to group_data; only evaluated where the keys exist
group_row(customer_id, group_name, group_result) ==
    [customer_id |-> customer_id,
     group_name |-> group_name,
     group_status |-> group_result.group_status,
     passed_programs |-> group_result.passed_programs,
     required_programs |-> group_result.required_programs]

\* the tuple appended to program_data
program_row(customer_id, group_name, program_type, program_result) ==
    [customer_id |-> customer_id,
     group_name |-> group_name,
     program_type |-> program_type,
     pass_status |-> program_result.pass_status,
     reason |-> program_result.reason,
     audit_value |-> Get(program_result, "audit_value", 0),
     required_value |-> Get(program_result, "required_value", 0),
     registration_qty |-> Get(program_result, "registration_qty", 0),
     condition_min_value |-> Get(program_result, "condition_min_value", 0),
     deficit |-> Get(program_result, "deficit", 0)]

customer_data(results) ==
    {customer_row(c, results[c]) : c \in DOMAIN results}

group_data(results) ==
    UNION {{group_row(c, g, results[c].group_results[g]) :
               g \in DOMAIN results[c].group_results} : c \in DOMAIN results}

program_data(results) ==
    UNION {{program_row(c, gp[1], gp[2],
                        results[c].group_results[gp[1]].program_results[gp[2]]) :
               gp \in ProgramKeys(results[c])} : c \in DOMAIN results}

\* group_result['passed_programs'] raises KeyError for a group result that has
\* no such key (the NO_CONDITIONS result of process_single_group)
SaveRaises(results) ==
    \E c \in DOMAIN results :
        \E g \in DOMAIN results[c].group_results :
            ~({"passed_programs", "required_programs"}
                  \subseteq DOMAIN results[c].group_results[g])

\* the rows the first n executemany INSERTs of a save have written
Inserted(results, n) ==
    [audit_customer_results |->
         IF n >= 1 THEN SetToBag(customer_data(results)) ELSE EmptyBag,
     audit_group_results |->
         IF n >= 2 THEN SetToBag(group_data(results)) ELSE EmptyBag,
     audit_program_results |->
         IF n >= 3 THEN SetToBag(program_data(results)) ELSE EmptyBag]

\* a plausible slip: a commit after each executemany
CommittedOnFailurePerInsert(inserted) == inserted

\* the rows of a save that stay in the tables when an INSERT raises: the only
\* commit follows the third executemany, and the except branch rolls back
CommittedOnFailure(inserted) == EmptySink

SinkAdd(tables, rows) ==
    [audit_customer_results |->
         tables.audit_customer_results (+) rows.audit_customer_results,
     audit_group_results |->
         tables.audit_group_results (+) rows.audit_group_results,
     audit_program_results |->
         tables.audit_program_results (+) rows.audit_program_results]

\* main, with a database connection: save_results_to_database(all_results, conn).
\* The rows of every customer are prepared first; an exception there rolls back
\* and nothing is inserted.  Otherwise three executemany INSERTs and one commit;
\* failed_at is the INSERT the database rejects (0: none), after which the
\* except branch rolls back and raises.
SaveResults ==
    /\ pc = "returned"
    /\ IF SaveRaises(all_results)
       THEN /\ sink' = sink
            /\ pc' = "save_failed"
       ELSE \E failed_at \in 0..3 :
                IF failed_at = 0
                THEN /\ sink' = SinkAdd(sink, Inserted(all_results, 3))
                     /\ pc' = "saved"
                ELSE /\ sink' = SinkAdd(sink,
                                   CommittedOnFailure(Inserted(all_results, failed_at - 1)))
                     /\ pc' = "save_failed"
    /\ UNCHANGED <<audit_data, condition_data, registration_data, observed,
                   all_results, customer_idx, previous_results>>
    /\ UNCHANGED call_vars

\* how many times main is run
MaxRuns == 2

\* main is run again for the same period on the same input tables: the engine
\* starts from an empty dictionary, the result tables keep their rows
RunAgain ==
    /\ pc \in {"saved", "save_failed"}
    /\ Len(previous_results) + 1 < MaxRuns
    /\ previous_results' = Append(previous_results, all_results)
    /\ all_results' = EmptyDict
    /\ customer_idx' = 0
    /\ pc' = "loop"
    /\ UNCHANGED <<audit_data, condition_data, registration_data, observed, sink>>
    /\ UNCHANGED call_vars

NextMain == ProcessNextCustomer \/ ReturnResults \/ SaveResults \/ RunAgain

(***************************************************************************)
(* Inputs                                                                  *)
(***************************************************************************)
MaxAudit == 2
MaxReg == 2
MaxRule == 1
MaxValue == 4
MaxQty == 2
MaxMin == 2
MaxNeg == 1
MaxDupValue == 2
MaxDupQty == 2

AuditRows(C, P, V) ==
    [customer_id : C, program_type : P, group : Groups, value : V]

RegistrationRows(C, P, Q) ==
    [customer_id : C, program_type : P, qty : Q]

ConditionRows(P, M, G) ==
    [group : Groups, program_type : P, condition_min_value : M, group_min_value : G]

\* no call on the database layer or on a service is in progress or was made
NoCall ==
    /\ repo = [kind |-> "none"]
    /\ request = [op |-> "none"]
    /\ response = [kind |-> "none"]
    /\ trace = <<>>

\* the state on entry of process_audit_for_all_customers, in the first run of
\* main: the result tables were just created
Entry ==
    /\ observed \in BOOLEAN
    /\ all_results = EmptyDict
    /\ customer_idx = 0
    /\ pc = "loop"
    /\ sink = EmptySink
    /\ previous_results = <<>>
    /\ NoCall

\* the batch: two customers; every audit value is 1, so that a fake_picture
\* row fails and a PROG_1 row with a rule passes
Init ==
    /\ audit_data \in SeqUpTo(AuditRows(Customers, AuditPrograms, {1}), MaxAudit)
    /\ registration_data \in SeqUpTo(RegistrationRows(Customers, AuditPrograms, {1}), MaxReg)
    /\ condition_data \in SeqUpTo(ConditionRows({"PROG_1"}, {1}, {1}), MaxRule)
    /\ Entry

Spec == Init /\ [][Next]_vars

\* one audited customer, several rows per table, rules for the audited PROG_1
\* with a quota of 1 or 2 and rules for the unaudited PROG_2
InitCustomer ==
    /\ audit_data \in SeqFromTo(AuditRows({"CUST_1"}, AuditPrograms, 0..1), 1, MaxAudit)
    /\ registration_data \in SeqUpTo(RegistrationRows({"CUST_1"}, AuditPrograms, {1}), MaxReg)
    /\ condition_data \in
           SeqUpTo(ConditionRows({"PROG_1"}, {1}, 1..2) \cup ConditionRows({"PROG_2"}, {1}, {1}),
                   MaxRule)
    /\ Entry

SpecCustomer == InitCustomer /\ [][Next]_vars

\* one audit row and one registration row, a range of numbers
InitProgram ==
    /\ audit_data \in [1..1 -> AuditRows({"CUST_1"}, AuditPrograms, 0..MaxValue)]
    /\ registration_data \in
           [1..1 -> RegistrationRows({"CUST_1"}, AuditPrograms, (0 - MaxNeg)..MaxQty)]
    /\ condition_data \in
           SeqUpTo(ConditionRows(RulePrograms, (0 - MaxNeg)..MaxMin, {1}), MaxRule)
    /\ Entry

SpecProgram == InitProgram /\ [][Next]_vars

\* one customer auditing GROUP_A, which has a rule for PROG_1; rows may repeat
\* a program with another value or another quantity
InitDuplicates ==
    /\ audit_data \in
           SeqFromTo({r \in AuditRows({"CUST_1"}, AuditPrograms, 0..MaxDupValue) :
                         r.group = "GROUP_A"}, 1, MaxAudit)
    /\ registration_data \in
           SeqUpTo(RegistrationRows({"CUST_1"}, AuditPrograms, 1..MaxDupQty), MaxReg)
    /\ condition_data =
           <<[group |-> "GROUP_A", program_type |-> "PROG_1",
              condition_min_value |-> 1, group_min_value |-> 1]>>
    /\ Entry

SpecDuplicates == InitDuplicates /\ [][Next]_vars

\* runs of main over a batch of two customers that audit one group; every audit
\* value is 1; the group has a rule for PROG_1 or none
InitMain ==
    /\ audit_data \in
           SeqUpTo({r \in AuditRows(Customers, AuditPrograms, {1}) : r.group = "GROUP_A"},
                   MaxAudit)
    /\ registration_data \in SeqUpTo(RegistrationRows(Customers, AuditPrograms, {1}), MaxReg)
    /\ condition_data \in
           SeqUpTo({r \in ConditionRows({"PROG_1"}, {1}, {1}) : r.group = "GROUP_A"},
                   MaxRule)
    /\ Entry

SpecMain == InitMain /\ [][NextMain]_vars

\* runs of main for one customer registered once for each program, both groups
\* with a rule for PROG_1 and a quota of 1
InitFlag ==
    /\ audit_data \in SeqFromTo(AuditRows({"CUST_1"}, AuditPrograms, 0..1), 1, MaxAudit)
    /\ registration_data =
           <<[customer_id |-> "CUST_1", program_type |-> FAKE_PICTURE, qty |-> 1],
             [customer_id |-> "CUST_1", program_type |-> "PROG_1", qty |-> 1]>>
    /\ condition_data =
           <<[group |-> "GROUP_A", program_type |-> "PROG_1",
              condition_min_value |-> 1, group_min_value |-> 1],
             [group |-> "GROUP_B", program_type |-> "PROG_1",
              condition_min_value |-> 1, group_min_value |-> 1]>>
    /\ Entry

SpecFlag == InitFlag /\ [][NextMain]_vars

(***************************************************************************)
(* What the inputs say, read off the tables without the engine             *)
(***************************************************************************)
HasAudit(c) == \E i \in DOMAIN audit_data : audit_data[i].customer_id = c

Registered(c) == \E j \in DOMAIN registration_data : registration_data[j].customer_id = c

HasRule(g) == \E k \in DOMAIN condition_data : condition_data[k].group = g

HasProgramRule(g, p) ==
    \E k \in DOMAIN condition_data :
        condition_data[k].group = g /\ condition_data[k].program_type = p

FirstRule(g) ==
    condition_data[CHOOSE k \in DOMAIN condition_data :
        /\ condition_data[k].group = g
        /\ \A m \in 1..(k - 1) : condition_data[m].group # g]

FirstProgramRule(g, p) ==
    condition_data[CHOOSE k \in DOMAIN condition_data :
        /\ condition_data[k].group = g /\ condition_data[k].program_type = p
        /\ \A m \in 1..(k - 1) :
               ~(condition_data[m].group = g /\ condition_data[m].program_type = p)]

\* the (audit row, registration row) pairs of customer c in group g that the
\* join matches
MatchedPairs(c, g) ==
    {ij \in (DOMAIN audit_data) \X (DOMAIN registration_data) :
        /\ audit_data[ij[1]].customer_id = c
        /\ audit_data[ij[1]].group = g
        /\ registration_data[ij[2]].customer_id = c
        /\ registration_data[ij[2]].program_type = audit_data[ij[1]].program_type}

Matched(c) == \E g \in Groups : MatchedPairs(c, g) # {}

GroupResult(c, g) == all_results[c].group_results[g]

Processed == DOMAIN all_results

EvaluatedCustomers == {c \in Processed : all_results[c].reason = "PROCESSED"}

(***************************************************************************)
(* Claims                                                                  *)
(***************************************************************************)

\* C1: a customer that reaches group evaluation is PASS iff every one of its
\* group verdicts is PASS.
C1_OverallIffAllGroupsPass ==
    \A c \in EvaluatedCustomers :
        all_results[c].overall_status = "PASS"
        <=> \A g \in DOMAIN all_results[c].group_results :
                GroupResult(c, g).group_status = "PASS"

\* C1 witness: a customer with one PASS group and one FAIL group, overall FAIL.
C1_Witness ==
    \E c \in EvaluatedCustomers :
        /\ all_results[c].overall_status = "FAIL"
        /\ \E g1, g2 \in DOMAIN all_results[c].group_results :
               /\ GroupResult(c, g1).group_status = "PASS"
               /\ GroupResult(c, g2).group_status = "FAIL"

\* C2: a group with at least one rule is PASS iff passed_programs >=
\* required_programs, and required_programs is the group_min_value of the
\* group's (first) rule.
C2_GroupQuota ==
    \A c \in EvaluatedCustomers :
        \A g \in DOMAIN all_results[c].group_results :
            HasRule(g) =>
                /\ {"passed_programs", "required_programs"} \subseteq DOMAIN GroupResult(c, g)
                /\ GroupResult(c, g).required_programs = FirstRule(g).group_min_value
                /\ (GroupResult(c, g).group_status = "PASS"
                    <=> GroupResult(c, g).passed_programs
                            >= GroupResult(c, g).required_programs)
                /\ GroupResult(c, g).group_status \in {"PASS", "FAIL"}

\* C2 witness: required 2 and passed 2 gives PASS (equality passes).
C2_Witness ==
    \E c \in EvaluatedCustomers :
        \E g \in DOMAIN all_results[c].group_results :
            /\ HasRule(g)
            /\ GroupResult(c, g).required_programs = 2
            /\ GroupResult(c, g).passed_programs = 2
            /\ Cardinality(DOMAIN GroupResult(c, g).program_results) = 2
            /\ GroupResult(c, g).group_status = "PASS"

\* the single audit row and registration row of InitProgram
TheAudit == audit_data[1]

TheRegistration == registration_data[1]

OneRowEach == Len(audit_data) = 1 /\ Len(registration_data) = 1

TheRowMatches ==
    /\ OneRowEach
    /\ TheRegistration.customer_id = TheAudit.customer_id
    /\ TheRegistration.program_type = TheAudit.program_type

\* the verdict recorded for the single matched row; only read where it exists
TheVerdict ==
    GroupResult(TheAudit.customer_id, TheAudit.group).program_results[TheAudit.program_type]

TheVerdictExists ==
    /\ TheAudit.customer_id \in Processed
    /\ TheAudit.group \in DOMAIN all_results[TheAudit.customer_id].group_results
    /\ TheAudit.program_type
           \in DOMAIN GroupResult(TheAudit.customer_id, TheAudit.group).program_results

\* C3: for an ordinary program with a rule in its group, required_value =
\* min_value * quantity; measured >= required gives PASS with deficit 0,
\* measured < required gives FAIL with deficit = required - measured > 0.
C3_ThresholdVerdict ==
    (/\ TheRowMatches
     /\ TheAudit.customer_id \in Processed
     /\ TheAudit.program_type # FAKE_PICTURE
     /\ HasProgramRule(TheAudit.group, TheAudit.program_type))
    => LET required ==
               FirstProgramRule(TheAudit.group, TheAudit.program_type).condition_min_value
                   * TheRegistration.qty
       IN  /\ TheVerdictExists
           /\ TheVerdict.required_value = required
           /\ TheAudit.value >= required
                  => TheVerdict.pass_status = "PASS" /\ TheVerdict.deficit = 0
           /\ TheAudit.value < required
                  => /\ TheVerdict.pass_status = "FAIL"
                     /\ TheVerdict.deficit = required - TheAudit.value
                     /\ TheVerdict.deficit > 0

\* C3 witness: quantity 2, min_value 2, measured 3: required 4, FAIL, deficit 1.
C3_Witness ==
    /\ TheRowMatches
    /\ TheVerdictExists
    /\ TheAudit.program_type # FAKE_PICTURE
    /\ HasProgramRule(TheAudit.group, TheAudit.program_type)
    /\ TheRegistration.qty = 2
    /\ TheAudit.value = 3
    /\ TheVerdict.required_value = 4
    /\ TheVerdict.pass_status = "FAIL"
    /\ TheVerdict.deficit = 1

\* C4 (as claimed): every matched row of the sentinel program gets a program
\* verdict, FAIL when measured_value > 0 and PASS when it is 0, whatever the
\* quantity, the group and the rules configured for the group.
C4_SentinelVerdictAlways ==
    (/\ pc = "returned"
     /\ TheRowMatches
     /\ TheAudit.program_type = FAKE_PICTURE)
    => /\ TheVerdictExists
       /\ TheVerdict.pass_status = IF TheAudit.value > 0 THEN "FAIL" ELSE "PASS"

SentinelFailed(c, g) ==
    /\ FAKE_PICTURE \in DOMAIN GroupResult(c, g).program_results
    /\ GroupResult(c, g).program_results[FAKE_PICTURE].pass_status = "FAIL"

\* C5 (as claimed): a FAIL verdict of the sentinel program makes its group FAIL
\* and the customer FAIL, however many other programs of the group passed.
C5_SentinelVeto ==
    \A c \in EvaluatedCustomers :
        \A g \in DOMAIN all_results[c].group_results :
            SentinelFailed(c, g)
            => /\ GroupResult(c, g).group_status = "FAIL"
               /\ all_results[c].overall_status = "FAIL"

\* the matched rows of customer c in group g that pass: a sentinel row with
\* value 0, an ordinary row with a rule and value >= min_value * qty
PassingPairs(c, g) ==
    {ij \in MatchedPairs(c, g) :
        LET a == audit_data[ij[1]]
            r == registration_data[ij[2]]
        IN  IF a.program_type = FAKE_PICTURE
            THEN a.value <= 0
            ELSE /\ HasProgramRule(g, a.program_type)
                 /\ a.value >= FirstProgramRule(g, a.program_type).condition_min_value
                                   * r.qty}

\* C5 (amended): a FAIL verdict of the sentinel program adds nothing to the
\* group's passed count; its group is FAIL exactly when fewer than
\* required_programs matched rows of the group pass, and a FAIL group makes the
\* customer FAIL.
C5_SentinelCountsInQuota ==
    \A c \in EvaluatedCustomers :
        \A g \in DOMAIN all_results[c].group_results :
            SentinelFailed(c, g)
            => /\ GroupResult(c, g).passed_programs = Cardinality(PassingPairs(c, g))
               /\ (GroupResult(c, g).group_status = "FAIL"
                   <=> Cardinality(PassingPairs(c, g)) < FirstRule(g).group_min_value)
               /\ (GroupResult(c, g).group_status = "FAIL"
                   => all_results[c].overall_status = "FAIL")

\* C5 witness: the sentinel verdict is FAIL, another program of the group
\* passes and fills the quota: the group and the customer are PASS.
C5_Witness ==
    \E c \in EvaluatedCustomers :
        \E g \in DOMAIN all_results[c].group_results :
            /\ SentinelFailed(c, g)
            /\ "PROG_1" \in DOMAIN GroupResult(c, g).program_results
            /\ GroupResult(c, g).program_results["PROG_1"].pass_status = "PASS"
            /\ GroupResult(c, g).passed_programs = 1
            /\ GroupResult(c, g).group_status = "PASS"
            /\ all_results[c].overall_status = "PASS"

\* C6 (as claimed): the returned result has exactly one customer verdict for
\* every customer of the registrations or of the audit records, and no other.
C6_EveryCustomerCovered ==
    pc = "returned"
    => Processed = {c \in Customers : HasAudit(c) \/ Registered(c)}

\* C7: a processed customer with no registration is FAIL / NO_REGISTRATION
\* with no group verdict (hence no program verdict).
C7_NoRegistration ==
    \A c \in Processed :
        ~Registered(c)
        => /\ all_results[c].overall_status = "FAIL"
           /\ all_results[c].reason = "NO_REGISTRATION"
           /\ DOMAIN all_results[c].group_results = {}

\* C7 witness: an audited customer without registration, while another
\* customer is registered, has been processed.
C7_Witness ==
    \E c \in Processed :
        /\ ~Registered(c)
        /\ registration_data # <<>>
        /\ all_results[c].reason = "NO_REGISTRATION"

\* C8 (as claimed): a customer with a registration and no audit record that
\* matches a registered program gets FAIL / NO_AUDIT_DATA with no group
\* verdict.
C8_NoAuditData ==
    pc = "returned"
    => \A c \in Customers :
           (Registered(c) /\ ~Matched(c))
           => /\ c \in Processed
              /\ all_results[c].overall_status = "FAIL"
              /\ all_results[c].reason = "NO_AUDIT_DATA"
              /\ DOMAIN all_results[c].group_results = {}

\* C9: an ordinary program without a rule in a group that has rules gets
\* FAIL / NO_CONDITION with required_value 0 whatever its measured value, and
\* its rows are not counted in passed_programs.
C9_NoCondition ==
    \A c \in EvaluatedCustomers :
        \A g \in DOMAIN all_results[c].group_results :
            HasRule(g)
            => /\ \A ij \in MatchedPairs(c, g) :
                      LET p == audit_data[ij[1]].program_type
                      IN  (p # FAKE_PICTURE /\ ~HasProgramRule(g, p))
                          => /\ p \in DOMAIN GroupResult(c, g).program_results
                             /\ GroupResult(c, g).program_results[p].pass_status = "FAIL"
                             /\ GroupResult(c, g).program_results[p].reason = "NO_CONDITION"
                             /\ GroupResult(c, g).program_results[p].required_value = 0
               /\ GroupResult(c, g).passed_programs
                      <= Cardinality({ij \in MatchedPairs(c, g) :
                             \/ audit_data[ij[1]].program_type = FAKE_PICTURE
                             \/ HasProgramRule(g, audit_data[ij[1]].program_type)})

\* C9 witness: a group with a rule for another program only, and a matched
\* ordinary row with a positive measured value: NO_CONDITION, nothing passed.
C9_Witness ==
    \E c \in EvaluatedCustomers :
        \E g \in DOMAIN all_results[c].group_results :
            /\ HasRule(g)
            /\ \E ij \in MatchedPairs(c, g) :
                   /\ audit_data[ij[1]].program_type # FAKE_PICTURE
                   /\ ~HasProgramRule(g, audit_data[ij[1]].program_type)
                   /\ audit_data[ij[1]].value > 0
            /\ "PROG_1" \in DOMAIN GroupResult(c, g).program_results
            /\ GroupResult(c, g).program_results["PROG_1"].reason = "NO_CONDITION"
            /\ GroupResult(c, g).passed_programs = 0

\* C10: a group without any rule gets FAIL / NO_CONDITIONS, and a customer
\* with a matched audit row in such a group is FAIL.
C10_NoConditions ==
    \A c \in EvaluatedCustomers :
        /\ \A g \in DOMAIN all_results[c].group_results :
               ~HasRule(g)
               => /\ GroupResult(c, g).group_status = "FAIL"
                  /\ GroupResult(c, g).reason = "NO_CONDITIONS"
        /\ \A g \in Groups :
               (MatchedPairs(c, g) # {} /\ ~HasRule(g))
               => /\ g \in DOMAIN all_results[c].group_results
                  /\ all_results[c].overall_status = "FAIL"

\* C10 witness: one group of the customer passes, another has a matched row
\* and no rule: NO_CONDITIONS, customer FAIL.
C10_Witness ==
    \E c \in EvaluatedCustomers :
        \E g1, g2 \in DOMAIN all_results[c].group_results :
            /\ GroupResult(c, g1).group_status = "PASS"
            /\ ~HasRule(g2)
            /\ MatchedPairs(c, g2) # {}
            /\ GroupResult(c, g2).reason = "NO_CONDITIONS"
            /\ all_results[c].overall_status = "FAIL"

\* the rows of customer c in the customer result table
CustomerRows(c) ==
    {r \in BagToSet(sink.audit_customer_results) : r.customer_id = c}

\* C11: after a save, the fake_picture_detected flag of a customer's row is 1
\* iff one of the customer's groups holds a FAIL verdict of the sentinel
\* program, whatever the customer's overall status.
C11_ExceptionFlag ==
    pc = "saved"
    => \A c \in Processed :
           /\ CustomerRows(c) # {}
           /\ \A r \in CustomerRows(c) :
                  /\ r.fake_picture_detected \in {0, 1}
                  /\ r.fake_picture_detected = 1
                     <=> \E g \in DOMAIN all_results[c].group_results :
                             SentinelFailed(c, g)

\* C11 witness: a saved customer whose sentinel verdict is FAIL while PROG_1
\* passes in the same group: overall status PASS, flag 1.
C11_Witness ==
    /\ pc = "saved"
    /\ \E c \in Processed :
           /\ all_results[c].overall_status = "PASS"
           /\ \E g \in DOMAIN all_results[c].group_results :
                  /\ SentinelFailed(c, g)
                  /\ "PROG_1" \in DOMAIN GroupResult(c, g).program_results
                  /\ GroupResult(c, g).program_results["PROG_1"].pass_status = "PASS"
           /\ \E r \in CustomerRows(c) :
                  r.overall_status = "PASS" /\ r.fake_picture_detected = 1

\* table holds every row of rows exactly once and no other row
HoldsExactly(table, rows) ==
    /\ BagToSet(table) = rows
    /\ \A r \in rows : CopiesIn(r, table) = 1

\* C12 (as claimed): after any number of runs and saves for the same period the
\* three tables hold one customer row per customer_id, one group row per
\* (customer_id, group) and one program row per (customer_id, group, program),
\* with the values of the latest run.
C12_UpsertByNaturalKey ==
    pc = "saved"
    => /\ HoldsExactly(sink.audit_customer_results, customer_data(all_results))
       /\ HoldsExactly(sink.audit_group_results, group_data(all_results))
       /\ HoldsExactly(sink.audit_program_results, program_data(all_results))
       /\ \A r1, r2 \in BagToSet(sink.audit_customer_results) :
              r1.customer_id = r2.customer_id => r1 = r2
       /\ \A r1, r2 \in BagToSet(sink.audit_group_results) :
              (r1.customer_id = r2.customer_id /\ r1.group_name = r2.group_name)
              => r1 = r2
       /\ \A r1, r2 \in BagToSet(sink.audit_program_results) :
              (/\ r1.customer_id = r2.customer_id
               /\ r1.group_name = r2.group_name
               /\ r1.program_type = r2.program_type)
              => r1 = r2

TheRowMalformed ==
    \/ TheRegistration.qty <= 0
    \/ /\ HasProgramRule(TheAudit.group, TheAudit.program_type)
       /\ FirstProgramRule(TheAudit.group, TheAudit.program_type).condition_min_value < 0

\* C14 (as claimed): a matched row with a zero or negative quantity, or with a
\* rule of negative min_value, never gets a program verdict PASS.
C14_MalformedNeverPass ==
    (TheRowMatches /\ TheVerdictExists /\ TheRowMalformed)
    => TheVerdict.pass_status # "PASS"

\* the rows of customer c in the audit table and in the registration table
AuditOf(c) == SelectSeq(audit_data, LAMBDA r : r.customer_id = c)

RegistrationsOf(c) == SelectSeq(registration_data, LAMBDA r : r.customer_id = c)

\* C15 (as claimed): the three-tier result of a customer is the one the engine
\* returns for the batch that holds the same rules and this customer's rows
\* only, whatever rows the other customers have.
C15_PartitionIndependent ==
    \A c \in Processed :
        all_results[c] =
            process_single_customer(c, AuditOf(c), condition_data, RegistrationsOf(c),
                                    GroupCategories(AuditOf(c)), observed)

\* C16 (as claimed): in a group that has rules, every matched row whose
\* evaluation fails leaves a FAIL verdict with a reason for its program in the
\* result returned for the customer, also when several matched rows of the
\* group share the program.
C16_NoFailureSwallowed ==
    \A c \in EvaluatedCustomers :
        \A g \in DOMAIN all_results[c].group_results :
            HasRule(g)
            => \A ij \in MatchedPairs(c, g) \ PassingPairs(c, g) :
                   LET p == audit_data[ij[1]].program_type
                   IN  /\ p \in DOMAIN GroupResult(c, g).program_results
                       /\ GroupResult(c, g).program_results[p].pass_status = "FAIL"
                       /\ "reason" \in DOMAIN GroupResult(c, g).program_results[p]

\* the programs of customer c in group g whose recorded verdict is PASS
PassVerdicts(c, g) ==
    {p \in DOMAIN GroupResult(c, g).program_results :
        GroupResult(c, g).program_results[p].pass_status = "PASS"}

\* C17 (as claimed): in every group verdict that carries a passed count,
\* passed_programs is the number of program verdicts with status PASS recorded
\* for the (customer, group), whatever duplicate rows the input has.
C17_PassedCountIsPassVerdicts ==
    \A c \in EvaluatedCustomers :
        \A g \in DOMAIN all_results[c].group_results :
            "passed_programs" \in DOMAIN GroupResult(c, g)
            => GroupResult(c, g).passed_programs = Cardinality(PassVerdicts(c, g))

\* the rows the matcher yields for customer c: merged_data of
\* process_single_customer
MatcherOutput(c) == Merge(AuditOf(c), CustomerRegistration(registration_data, c), 1)

\* the audit rows of customer c whose program is among c's registrations
RegisteredAudit(c) ==
    SelectSeq(AuditOf(c),
              LAMBDA a : \E j \in DOMAIN registration_data :
                             /\ registration_data[j].customer_id = c
                             /\ registration_data[j].program_type = a.program_type)

\* C18 (as claimed): for a processed customer the matcher output is exactly the
\* customer's audit rows of registered programs, each one once.
C18_MatcherExactSubset ==
    \A c \in Processed :
        /\ Len(MatcherOutput(c)) = Len(RegisteredAudit(c))
        /\ \A i \in DOMAIN MatcherOutput(c) :
               /\ i \in DOMAIN RegisteredAudit(c)
               /\ MatcherOutput(c)[i].customer_id = RegisteredAudit(c)[i].customer_id
               /\ MatcherOutput(c)[i].program_type = RegisteredAudit(c)[i].program_type
               /\ MatcherOutput(c)[i].group = RegisteredAudit(c)[i].group
               /\ MatcherOutput(c)[i].value = RegisteredAudit(c)[i].value

\* the evaluated customers of this run that have no row in the customer table
Unsaved == {c \in Processed : CustomerRows(c) = {}}

\* C19 (as claimed, for the smallest batch bound): in the first run, once more
\* than one customer has been evaluated, the results of at least one of them
\* have been handed to the sink.
C19_BoundedBatches ==
    (previous_results = <<>> /\ Cardinality(Processed) > 1)
    => Unsaved # Processed

\* the single matched row is an ordinary program with a rule in its group and
\* a measured value under the scaled threshold
TheRowBelowMinimum ==
    /\ TheRowMatches
    /\ TheVerdictExists
    /\ TheAudit.program_type # FAKE_PICTURE
    /\ HasProgramRule(TheAudit.group, TheAudit.program_type)
    /\ TheAudit.value
           < FirstProgramRule(TheAudit.group, TheAudit.program_type).condition_min_value
                 * TheRegistration.qty

\* C20 (as claimed): a threshold verdict that fails because the measured value
\* is under the required value carries the reason BELOW_MINIMUM, which is
\* neither NO_CONDITION nor the reason a PASS verdict carries.
C20_BelowMinimumReason ==
    TheRowBelowMinimum
    => /\ TheVerdict.pass_status = "FAIL"
       /\ TheVerdict.reason = "BELOW_MINIMUM"
       /\ TheVerdict.reason \notin {"NO_CONDITION", "NORMAL_PROCESSING"}
       /\ TheVerdict.deficit > 0

\* the matched pairs of customer c in group g whose program is p
ProgramPairs(c, g, p) ==
    {ij \in MatchedPairs(c, g) : audit_data[ij[1]].program_type = p}

\* the pair the join yields last among them: the last audit row, with the last
\* registration row
LastPair(c, g, p) ==
    CHOOSE ij \in ProgramPairs(c, g, p) :
        \A kl \in ProgramPairs(c, g, p) :
            kl[1] < ij[1] \/ (kl[1] = ij[1] /\ kl[2] <= ij[2])

\* C24: in a group that has rules the result holds exactly one verdict for each
\* program that has a matched row, and it is the verdict of the last matched
\* row of that program: its measured value, its quantity and its status.
C24_KeepLast ==
    \A c \in EvaluatedCustomers :
        \A g \in DOMAIN all_results[c].group_results :
            HasRule(g)
            => /\ DOMAIN GroupResult(c, g).program_results
                      = {audit_data[ij[1]].program_type : ij \in MatchedPairs(c, g)}
               /\ \A p \in DOMAIN GroupResult(c, g).program_results :
                      LET a == audit_data[LastPair(c, g, p)[1]]
                          r == registration_data[LastPair(c, g, p)[2]]
                          v == GroupResult(c, g).program_results[p]
                      IN  /\ v.program_type = p
                          /\ v.audit_value = a.value
                          /\ "registration_qty" \in DOMAIN v
                                 => v.registration_qty = r.qty
                          /\ v.pass_status = "PASS"
                                 <=> LastPair(c, g, p) \in PassingPairs(c, g)

\* C24 witness: PROG_1 audited twice, the first row passing and the last row
\* failing, registered twice with different quantities: the FAIL verdict of the
\* last row with the last quantity is the one retained.
C24_Witness ==
    \E c \in EvaluatedCustomers :
        \E g \in DOMAIN all_results[c].group_results :
            /\ HasRule(g)
            /\ "PROG_1" \in DOMAIN GroupResult(c, g).program_results
            /\ Cardinality(ProgramPairs(c, g, "PROG_1")) = 4
            /\ \E ij \in ProgramPairs(c, g, "PROG_1") : ij \in PassingPairs(c, g)
            /\ GroupResult(c, g).program_results["PROG_1"].pass_status = "FAIL"
            /\ GroupResult(c, g).program_results["PROG_1"].registration_qty = 2
            /\ registration_data[1].qty = 1

\* customer c has as many copies of each of its group rows and of each of its
\* program rows in the tables as it has customer rows
WholeResultSets(c) ==
    LET n == CopiesIn(customer_row(c, all_results[c]), sink.audit_customer_results)
    IN  /\ \A g \in DOMAIN all_results[c].group_results :
               CopiesIn(group_row(c, g, GroupResult(c, g)), sink.audit_group_results) = n
        /\ \A gp \in ProgramKeys(all_results[c]) :
               CopiesIn(program_row(c, gp[1], gp[2],
                                    GroupResult(c, gp[1]).program_results[gp[2]]),
                        sink.audit_program_results) = n

Programs == {"PROG001", "PROG002"}
DisplayTypes == {"KE_3_O", "KE_4_O"}
ConditionCodes == {"CLEANLINESS", "PRODUCT_AVAILABILITY"}

\* int(x) of Python for a float x given in tenths: truncation toward zero
IntOfTenths(tenths) ==
    IF tenths >= 0 THEN tenths \div 10 ELSE 0 - ((0 - tenths) \div 10)

\* AuditPicture.numeric_value: int(float(value)), 0 when value is no number
numeric_value(value) ==
    IF value.kind = "number" THEN IntOfTenths(value.tenths) ELSE 0

\* ConditionItem.meets_minimum
meets_minimum(condition, actual_value) == actual_value >= condition.condition_min_value

\* Register.is_active
is_active(registration) == registration.status

\* get_registrations(yyyymm, customer_code, active_only)
get_registrations(registrations, active_only) ==
    SelectSeq(registrations, LAMBDA r : (~active_only) \/ r.status)

\* get_condition_items(yyyymm, program_code)
get_condition_items(condition_items, program_code) ==
    SelectSeq(condition_items, LAMBDA c : c.program_code = program_code)

\* next((r for r in registrations if r.program_code == program_code), None):
\* the position of the first match, 0 for None
RECURSIVE FirstRegistration(_, _, _)
FirstRegistration(registrations, program_code, i) ==
    IF i > Len(registrations) THEN 0
    ELSE IF registrations[i].program_code = program_code THEN i
    ELSE FirstRegistration(registrations, program_code, i + 1)

\* {audit.condition_code: audit for audit in audit_results}
RECURSIVE AuditDict(_, _, _)
AuditDict(audit_results, i, d) ==
    IF i > Len(audit_results) THEN d
    ELSE AuditDict(audit_results, i + 1,
                   DictSet(d, audit_results[i].condition_code, audit_results[i]))

Failure(reason, condition_code, actual_value, minimum) ==
    [reason |-> reason, condition_code |-> condition_code,
     actual_value |-> actual_value, minimum |-> minimum]

EvaluationResult(total_points, max_possible_points, meets_criteria, failed_conditions, registration_status) ==
    [total_points |-> total_points, max_possible_points |-> max_possible_points,
     meets_criteria |-> meets_criteria, failed_conditions |-> failed_conditions,
     registration_status |-> registration_status]

\* CustomerEvaluationResult.is_eligible_for_reward
is_eligible_for_reward(result) == result.meets_criteria /\ result.registration_status

\* the for loop over the condition items; acc carries total_points,
\* max_possible_points and failed_conditions
RECURSIVE ConditionLoop(_, _, _, _)
ConditionLoop(condition_items, i, audit_dict, acc) ==
    IF i > Len(condition_items) THEN acc
    ELSE LET condition == condition_items[i]
             max_points == acc.max_possible_points + condition.condition_point
         IN  IF condition.condition_code \notin DOMAIN audit_dict
             THEN ConditionLoop(condition_items, i + 1, audit_dict,
                      [acc EXCEPT !.max_possible_points = max_points,
                                  !.failed_conditions =
                                      Append(@, Failure("NOT_AUDITED",
                                          condition.condition_code, 0,
                                          condition.condition_min_value))])
             ELSE LET actual_value ==
                          numeric_value(audit_dict[condition.condition_code].value)
                  IN  IF meets_minimum(condition, actual_value)
                      THEN ConditionLoop(condition_items, i + 1, audit_dict,
                               [acc EXCEPT !.max_possible_points = max_points,
                                           !.total_points = @ + condition.condition_point])
                      ELSE ConditionLoop(condition_items, i + 1, audit_dict,
                               [acc EXCEPT !.max_possible_points = max_points,
                                           !.failed_conditions =
                                               Append(@, Failure("BELOW_MINIMUM",
                                                   condition.condition_code, actual_value,
                                                   condition.condition_min_value))])

\* a plausible slip: every table is fetched before the first check
DisplayProgramService_evaluate_customer_prefetch(tables, program_code) ==
    LET registrations == get_registrations(tables.registrations, FALSE)
        at == FirstRegistration(registrations, program_code, 1)
        condition_items == get_condition_items(tables.condition_items, program_code)
        all_calls == <<"get_registrations", "get_condition_items", "get_audit_results">>
    IN  IF at = 0
        THEN [calls |-> all_calls,
              result |-> EvaluationResult(0, 0, FALSE,
                             <<Failure("NOT_REGISTERED", "", 0, 0)>>, FALSE)]
        ELSE IF condition_items = <<>>
        THEN [calls |-> all_calls,
              result |-> EvaluationResult(0, 0, FALSE,
                             <<Failure("NO_CONDITIONS_DEFINED", "", 0, 0)>>,
                             is_active(registrations[at]))]
        ELSE LET acc == ConditionLoop(condition_items, 1,
                            AuditDict(tables.audit_results, 1, EmptyDict),
                            [total_points |-> 0, max_possible_points |-> 0,
                             failed_conditions |-> <<>>])
             IN  [calls |-> all_calls,
                  result |-> EvaluationResult(acc.total_points, acc.max_possible_points,
                                 acc.failed_conditions = <<>>, acc.failed_conditions,
                                 is_active(registrations[at]))]

\* DisplayProgramService.evaluate_customer: the result and the repository
\* calls made, in order
DisplayProgramService_evaluate_customer(tables, program_code) ==
    LET registrations == get_registrations(tables.registrations, FALSE)
        at == FirstRegistration(registrations, program_code, 1)
    IN  IF at = 0
        THEN [calls |-> <<"get_registrations">>,
              result |-> EvaluationResult(0, 0, FALSE,
                             <<Failure("NOT_REGISTERED", "", 0, 0)>>, FALSE)]
        ELSE LET condition_items ==
                     get_condition_items(tables.condition_items, program_code)
             IN  IF condition_items = <<>>
                 THEN [calls |-> <<"get_registrations", "get_condition_items">>,
                       result |-> EvaluationResult(0, 0, FALSE,
                                      <<Failure("NO_CONDITIONS_DEFINED", "", 0, 0)>>,
                                      is_active(registrations[at]))]
                 ELSE LET acc == ConditionLoop(condition_items, 1,
                                     AuditDict(tables.audit_results, 1, EmptyDict),
                                     [total_points |-> 0, max_possible_points |-> 0,
                                      failed_conditions |-> <<>>])
                      IN  [calls |-> <<"get_registrations", "get_condition_items",
                                       "get_audit_results">>,
                           result |-> EvaluationResult(acc.total_points,
                                          acc.max_possible_points,
                                          acc.failed_conditions = <<>>,
                                          acc.failed_conditions,
                                          is_active(registrations[at]))]

\* one call of the service
EvaluateCustomer ==
    /\ repo.kind = "display_program"
    /\ response.kind = "none"
    /\ \E program_code \in Programs :
           LET out == DisplayProgramService_evaluate_customer(repo, program_code)
           IN  /\ request' = [op |-> "evaluate_customer", program_code |-> program_code]
               /\ response' = [kind |-> "returned", result |-> out.result]
               /\ trace' = out.calls
    /\ UNCHANGED repo
    /\ UNCHANGED engine_vars

NextService == EvaluateCustomer

\* longest table of the service's repository
MaxRows == 2
\* largest condition_min_value
MaxItemMin == 1
\* largest audit value, in units
MaxAuditValue == 1

\* sequences over S of at most n rows with pairwise different keys, key the
\* function that gives the key of a row
KeyedSeqs(S, n, key) ==
    {s \in SeqUpTo(S, n) : \A i, j \in DOMAIN s : i # j => key[s[i]] # key[s[j]]}

RegistrationKey(r) == <<r.program_code, r.display_type>>
ConditionItemKey(c) == <<c.program_code, c.condition_code>>
AuditKey(a) == a.condition_code

\* registrations for PROG001 with either display type, active or not, and an
\* active one for PROG002
RegisterRows ==
    [program_code : {"PROG001"}, display_type : DisplayTypes, status : BOOLEAN]
    \cup
    [program_code : {"PROG002"}, display_type : {"KE_3_O"}, status : {TRUE}]

\* items of PROG001 with a range of minimums, one kind of item for PROG002
ConditionItemRows ==
    [program_code : {"PROG001"}, condition_code : ConditionCodes,
     condition_min_value : 0..MaxItemMin, condition_point : {1}]
    \cup
    [program_code : {"PROG002"}, condition_code : {"CLEANLINESS"},
     condition_min_value : {1}, condition_point : {2}]

\* "-0.5", "0", "1", ..., the largest value and a half, and a text that is no
\* number
AuditValues ==
    {[kind |-> "number", tenths |-> t] :
        t \in {0 - 5, 10 * MaxAuditValue + 5} \cup {10 * u : u \in 0..MaxAuditValue}}
    \cup {[kind |-> "text", tenths |-> 0]}

AuditPictureRows == [condition_code : ConditionCodes, value : AuditValues]

\* the engine is not running
EngineIdle ==
    /\ audit_data = <<>>
    /\ condition_data = <<>>
    /\ registration_data = <<>>
    /\ observed = TRUE
    /\ all_results = EmptyDict
    /\ customer_idx = 0
    /\ pc = "idle"
    /\ sink = EmptySink
    /\ previous_results = <<>>

InitService ==
    /\ \E registrations \in KeyedSeqs(RegisterRows, MaxRows,
                                        [r \in RegisterRows |-> RegistrationKey(r)]),
          condition_items \in KeyedSeqs(ConditionItemRows, MaxRows,
                                          [c \in ConditionItemRows |-> ConditionItemKey(c)]),
          audit_results \in
              KeyedSeqs(AuditPictureRows, Cardinality(ConditionCodes),
                        [a \in AuditPictureRows |-> AuditKey(a)]) :
           repo = [kind |-> "display_program", registrations |-> registrations,
                   condition_items |-> condition_items, audit_results |-> audit_results]
    /\ request = [op |-> "none"]
    /\ response = [kind |-> "none"]
    /\ trace = <<>>
    /\ EngineIdle

SpecService == InitService /\ [][NextService]_vars

(***************************************************************************)
(* Claims about DisplayProgramService.evaluate_customer                    *)
(***************************************************************************)
\* the call has returned its result for the requested program
Evaluated == request.op = "evaluate_customer" /\ response.kind = "returned"

ItemsOf(program_code) ==
    {repo.condition_items[i] : i \in
        {k \in DOMAIN repo.condition_items :
            repo.condition_items[k].program_code = program_code}}

HoldsActiveRegistration(program_code) ==
    \E i \in DOMAIN repo.registrations :
        /\ repo.registrations[i].program_code = program_code
        /\ repo.registrations[i].status

AuditedAtLeast(condition_code, minimum) ==
    \E i \in DOMAIN repo.audit_results :
        /\ repo.audit_results[i].condition_code = condition_code
        /\ numeric_value(repo.audit_results[i].value) >= minimum

\* C21: the result is eligible for the reward if and only if the customer
\* holds an active registration for the program, the program has at least one
\* condition item and every condition item has an audit result of the customer
\* whose numeric value is at least the item's minimum; meets_criteria is true
\* exactly when failed_conditions is empty.
C21_EligibleIff ==
    Evaluated =>
        /\ is_eligible_for_reward(response.result) <=>
               /\ HoldsActiveRegistration(request.program_code)
               /\ ItemsOf(request.program_code) # {}
               /\ \A c \in ItemsOf(request.program_code) :
                      AuditedAtLeast(c.condition_code, c.condition_min_value)
        /\ response.result.meets_criteria <=> (response.result.failed_conditions = <<>>)

RegistrationsFor(program_code) ==
    {i \in DOMAIN repo.registrations :
        repo.registrations[i].program_code = program_code}

\* the registration the month's rows give first for the program
RegistrationFound(program_code) ==
    repo.registrations[CHOOSE i \in RegistrationsFor(program_code) :
                           \A j \in RegistrationsFor(program_code) : i <= j]

\* C26: the checks run in a fixed order and stop at the first failing step.
\* With no registration for the program the result is exactly
\* [NOT_REGISTERED] with 0/0 points and registration_status false, and only
\* the registrations were fetched; otherwise, with no condition item, it is
\* exactly [NO_CONDITIONS_DEFINED] with 0/0 points and the registration's own
\* status, and the audit results were not fetched.
C26_StopsAtFirstFailingStep ==
    Evaluated =>
        /\ RegistrationsFor(request.program_code) = {} =>
               /\ response.result =
                      EvaluationResult(0, 0, FALSE,
                          <<Failure("NOT_REGISTERED", "", 0, 0)>>, FALSE)
               /\ trace = <<"get_registrations">>
        /\ (/\ RegistrationsFor(request.program_code) # {}
            /\ ItemsOf(request.program_code) = {}) =>
               /\ response.result =
                      EvaluationResult(0, 0, FALSE,
                          <<Failure("NO_CONDITIONS_DEFINED", "", 0, 0)>>,
                          RegistrationFound(request.program_code).status)
               /\ trace = <<"get_registrations", "get_condition_items">>
        /\ (/\ RegistrationsFor(request.program_code) # {}
            /\ ItemsOf(request.program_code) # {}) =>
               trace = <<"get_registrations", "get_condition_items",
                         "get_audit_results">>

\* a customer with an active registration and audit results, evaluated for a
\* program without condition items
C26_Witness ==
    /\ Evaluated
    /\ RegistrationsFor(request.program_code) # {}
    /\ RegistrationFound(request.program_code).status
    /\ ItemsOf(request.program_code) = {}
    /\ repo.audit_results # <<>>
    /\ response.result.registration_status
    /\ trace = <<"get_registrations", "get_condition_items">>

(***************************************************************************)
(* The database layer (src/database.py): DatabaseConnection.get_connection *)
(* and the register_item operations of DisplayProgramRepository.           *)
(*                                                                         *)
(* A text is a sequence of characters.  repo.register_item is the          *)
(* committed register_item table, a function from the key                  *)
(* <<yyyymm, program_code, type_code, item>> to [facing, unit].  A block   *)
(* is what the body of a with statement does on the connection it is       *)
(* given: the calls it makes, the exception it raises ("none" when it      *)
(* ends normally), the value it returns and the table it would leave once  *)
(* committed.  The driver can fail in connect (the server is unreachable)  *)
(* and in execute (the statement is rejected); trace lists the calls on    *)
(* pyodbc, the connection and its cursor.                                  *)
(***************************************************************************)
Chars == {" ", "A"}

\* longest text
MaxCodeLen == 1

Texts == SeqUpTo(Chars, MaxCodeLen)

\* str.strip
RECURSIVE lstrip(_)
lstrip(s) == IF s # <<>> /\ Head(s) = " " THEN lstrip(Tail(s)) ELSE s

RECURSIVE rstrip(_)
rstrip(s) == IF s # <<>> /\ s[Len(s)] = " " THEN rstrip(SubSeq(s, 1, Len(s) - 1)) ELSE s

strip(s) == rstrip(lstrip(s))

\* the months after this one are valid
ValidAfterYyyymm == 202300

\* RegisterItem.is_valid
is_valid(item) ==
    /\ item.yyyymm > ValidAfterYyyymm
    /\ Len(strip(item.program_code)) > 0
    /\ Len(strip(item.type_code)) > 0
    /\ Len(strip(item.item)) > 0
    /\ item.facing > 0
    /\ item.unit > 0

RegisterItemKey(item) == <<item.yyyymm, item.program_code, item.type_code, item.item>>

DictDel(d, key) == [k \in DOMAIN d \ {key} |-> d[k]]

Block(calls, exception, value, table) ==
    [calls |-> calls, exception |-> exception, value |-> value, table |-> table]

\* a plausible slip: the connection is closed on the normal exit only
get_connection_close_on_success(table, connect_fails, block) ==
    IF connect_fails
    THEN Block(<<"connect">>, "OperationalError", FALSE, table)
    ELSE Block(<<"connect", "autocommit=False">> \o block.calls
                   \o (IF block.exception # "none" THEN <<"rollback">> ELSE <<"close">>),
               block.exception, block.value,
               IF \E i \in DOMAIN block.calls : block.calls[i] = "commit"
               THEN block.table ELSE table)

\* with get_connection() as conn: block.  connect raising leaves conn None:
\* neither rollback nor close.  Otherwise autocommit is switched off, the
\* block runs, an exception of the block is followed by rollback and is
\* raised again, and close runs in the finally clause.  What the block did
\* is in the table once it has called commit.
get_connection(table, connect_fails, block) ==
    IF connect_fails
    THEN Block(<<"connect">>, "OperationalError", FALSE, table)
    ELSE Block(<<"connect", "autocommit=False">> \o block.calls
                   \o (IF block.exception # "none" THEN <<"rollback">> ELSE <<>>)
                   \o <<"close">>,
               block.exception, block.value,
               IF \E i \in DOMAIN block.calls : block.calls[i] = "commit"
               THEN block.table ELSE table)

\* the with block of insert_register_item: the INSERT is rejected for a key
\* the table holds
InsertBlock(table, item, execute_fails) ==
    IF execute_fails
    THEN Block(<<"cursor", "execute">>, "Error", FALSE, table)
    ELSE IF RegisterItemKey(item) \in DOMAIN table
    THEN Block(<<"cursor", "execute">>, "IntegrityError", FALSE, table)
    ELSE Block(<<"cursor", "execute", "commit">>, "none", TRUE,
               DictSet(table, RegisterItemKey(item),
                       [facing |-> item.facing, unit |-> item.unit]))

\* a plausible slip: the UPDATE is committed whatever its rowcount
UpdateBlockAnyRowcount(table, item, execute_fails) ==
    IF execute_fails
    THEN Block(<<"cursor", "execute">>, "Error", FALSE, table)
    ELSE Block(<<"cursor", "execute", "commit">>, "none", TRUE,
               IF RegisterItemKey(item) \in DOMAIN table
               THEN DictSet(table, RegisterItemKey(item),
                            [facing |-> item.facing, unit |-> item.unit])
               ELSE table)

\* the with block of update_register_item
UpdateBlock(table, item, execute_fails) ==
    IF execute_fails
    THEN Block(<<"cursor", "execute">>, "Error", FALSE, table)
    ELSE IF RegisterItemKey(item) \notin DOMAIN table
    THEN Block(<<"cursor", "execute">>, "none", FALSE, table)
    ELSE Block(<<"cursor", "execute", "commit">>, "none", TRUE,
               DictSet(table, RegisterItemKey(item),
                       [facing |-> item.facing, unit |-> item.unit]))

\* the with block of delete_register_item
DeleteBlock(table, key, execute_fails) ==
    IF execute_fails
    THEN Block(<<"cursor", "execute">>, "Error", FALSE, table)
    ELSE IF key \notin DOMAIN table
    THEN Block(<<"cursor", "execute">>, "none", FALSE, table)
    ELSE Block(<<"cursor", "execute", "commit">>, "none", TRUE, DictDel(table, key))

\* try: with ...: return ... except Exception: return False
ReturnFalseOnException(out) ==
    [calls |-> out.calls, table |-> out.table,
     value |-> IF out.exception # "none" THEN FALSE ELSE out.value]

insert_register_item(table, item, fault) ==
    IF ~is_valid(item)
    THEN [calls |-> <<>>, table |-> table, value |-> FALSE]
    ELSE ReturnFalseOnException(
             get_connection(table, fault = "connect",
                            InsertBlock(table, item, fault = "execute")))

update_register_item(table, item, fault) ==
    IF ~is_valid(item)
    THEN [calls |-> <<>>, table |-> table, value |-> FALSE]
    ELSE ReturnFalseOnException(
             get_connection(table, fault = "connect",
                            UpdateBlock(table, item, fault = "execute")))

delete_register_item(table, key, fault) ==
    ReturnFalseOnException(
        get_connection(table, fault = "connect",
                       DeleteBlock(table, key, fault = "execute")))

\* largest facing and unit
MaxFacing == 1

RegisterItems ==
    [yyyymm : {ValidAfterYyyymm, ValidAfterYyyymm + 1}, program_code : Texts,
     type_code : {<<>>, <<"T">>}, item : {<<" ">>, <<"K">>},
     facing : 0..MaxFacing, unit : 0..MaxFacing]

Faults == {"none", "connect", "execute"}

\* most calls a block makes in UseConnection
MaxBlockCalls == 2

RepositoryCall(op, item, fault, out) ==
    /\ request' = [op |-> op, item |-> item, fault |-> fault]
    /\ response' = [kind |-> "returned", value |-> out.value]
    /\ trace' = out.calls
    /\ repo' = [repo EXCEPT !.register_item = out.table]
    /\ UNCHANGED engine_vars

InsertRegisterItem ==
    /\ repo.kind = "database"
    /\ response.kind = "none"
    /\ \E item \in RegisterItems, fault \in Faults :
           RepositoryCall("insert_register_item", item, fault,
                          insert_register_item(repo.register_item, item, fault))

UpdateRegisterItem ==
    /\ repo.kind = "database"
    /\ response.kind = "none"
    /\ \E item \in RegisterItems, fault \in Faults :
           RepositoryCall("update_register_item", item, fault,
                          update_register_item(repo.register_item, item, fault))

\* the key of the call is given as an item; its facing and unit are not used
DeleteRegisterItem ==
    /\ repo.kind = "database"
    /\ response.kind = "none"
    /\ \E item \in {i \in RegisterItems : i.facing = 0 /\ i.unit = 0},
          fault \in Faults :
           RepositoryCall("delete_register_item", item, fault,
                          delete_register_item(repo.register_item,
                                               RegisterItemKey(item), fault))

\* some caller's with block: it reads and maybe commits, and ends normally or
\* raises
UseConnection ==
    /\ repo.kind = "database"
    /\ response.kind = "none"
    /\ \E connect_fails \in BOOLEAN,
          calls \in SeqUpTo({"execute", "commit"}, MaxBlockCalls),
          exception \in {"none", "ValueError"} :
           LET block == Block(calls, exception, TRUE, repo.register_item)
               out == get_connection(repo.register_item, connect_fails, block)
           IN  /\ request' = [op |-> "get_connection", block |-> block,
                              fault |-> IF connect_fails THEN "connect" ELSE "none"]
               /\ response' = IF out.exception = "none"
                              THEN [kind |-> "returned", exception |-> "none"]
                              ELSE [kind |-> "raised", exception |-> out.exception]
               /\ trace' = out.calls
               /\ repo' = [repo EXCEPT !.register_item = out.table]
    /\ UNCHANGED engine_vars

NextDatabase ==
    InsertRegisterItem \/ UpdateRegisterItem \/ DeleteRegisterItem \/ UseConnection

\* the tables the inserts, updates and deletes of earlier calls can leave
RegisterItemTables ==
    LET keys == {RegisterItemKey(item) : item \in {i \in RegisterItems : is_valid(i)}}
    IN  UNION {[held -> [facing : 1..MaxFacing, unit : 1..MaxFacing]] :
                  held \in SUBSET keys}

\* one call on a table left by earlier calls
InitDatabase ==
    /\ \E table \in RegisterItemTables :
           repo = [kind |-> "database", register_item |-> table]
    /\ request = [op |-> "none"]
    /\ response = [kind |-> "none"]
    /\ trace = <<>>
    /\ EngineIdle

SpecDatabase == InitDatabase /\ [][NextDatabase]_vars

(***************************************************************************)
(* Claims about the database layer                                         *)
(***************************************************************************)
Count(calls, call) == Cardinality({i \in DOMAIN calls : calls[i] = call})

RegisterItemOps ==
    {"insert_register_item", "update_register_item", "delete_register_item"}

MinYyyymm == 202001
MaxYyyymm == 999912

\* not code or not code.strip()
IsBlank(code) == code = <<>> \/ strip(code) = <<>>

ServiceCall(yyyymm, customer_code, program_code) ==
    [yyyymm |-> yyyymm, customer_code |-> customer_code, program_code |-> program_code]

\* a plausible slip: the codes are passed on as given
execute_unstripped(yyyymm, customer_code, program_code, service_raises) ==
    IF IsBlank(customer_code) \/ IsBlank(program_code)
    THEN [calls |-> <<>>, exception |-> "ValueError"]
    ELSE IF yyyymm < MinYyyymm \/ yyyymm > MaxYyyymm
    THEN [calls |-> <<>>, exception |-> "ValueError"]
    ELSE [calls |-> <<ServiceCall(yyyymm, customer_code, program_code)>>,
          exception |-> service_raises]

\* EvaluateCustomerUseCase.execute: the calls on the service and the exception
\* that leaves execute ("none" when it returns the result of the service);
\* service_raises is what the service raises when called ("none": it returns)
execute(yyyymm, customer_code, program_code, service_raises) ==
    IF IsBlank(customer_code)
    THEN [calls |-> <<>>, exception |-> "ValueError"]
    ELSE IF IsBlank(program_code)
    THEN [calls |-> <<>>, exception |-> "ValueError"]
    ELSE IF yyyymm < MinYyyymm \/ yyyymm > MaxYyyymm
    THEN [calls |-> <<>>, exception |-> "ValueError"]
    ELSE [calls |-> <<ServiceCall(yyyymm, strip(customer_code), strip(program_code))>>,
          exception |-> service_raises]

\* EvaluateCustomerUseCase.execute_with_validation
execute_with_validation(yyyymm, customer_code, program_code, service_raises) ==
    LET out == execute(yyyymm, customer_code, program_code, service_raises)
    IN  [calls |-> out.calls,
         value |-> IF out.exception = "none"
                   THEN [success |-> TRUE, error |-> "none"]
                   ELSE IF out.exception = "ValueError"
                   THEN [success |-> FALSE, error |-> "Validation Error"]
                   ELSE [success |-> FALSE, error |-> "System Error"]]

\* longest code given to the use case
MaxArgLen == 2

CodeArgs == SeqUpTo(Chars, MaxArgLen)

YyyymmArgs == {MinYyyymm - 1, MinYyyymm, MaxYyyymm, MaxYyyymm + 1}

ServiceOutcomes == {"none", "ValueError", "RuntimeError"}

UseCaseRequest(op, yyyymm, customer_code, program_code, service_raises) ==
    [op |-> op, yyyymm |-> yyyymm, customer_code |-> customer_code,
     program_code |-> program_code, service_raises |-> service_raises]

Execute ==
    /\ repo.kind = "use_case"
    /\ response.kind = "none"
    /\ \E yyyymm \in YyyymmArgs, customer_code \in CodeArgs, program_code \in CodeArgs,
          service_raises \in ServiceOutcomes :
           LET out == execute(yyyymm, customer_code, program_code, service_raises)
           IN  /\ request' = UseCaseRequest("execute", yyyymm, customer_code,
                                            program_code, service_raises)
               /\ response' = IF out.exception = "none"
                              THEN [kind |-> "returned", exception |-> "none"]
                              ELSE [kind |-> "raised", exception |-> out.exception]
               /\ trace' = out.calls
    /\ UNCHANGED repo
    /\ UNCHANGED engine_vars

ExecuteWithValidation ==
    /\ repo.kind = "use_case"
    /\ response.kind = "none"
    /\ \E yyyymm \in YyyymmArgs, customer_code \in CodeArgs, program_code \in CodeArgs,
          service_raises \in ServiceOutcomes :
           LET out == execute_with_validation(yyyymm, customer_code, program_code,
                                              service_raises)
           IN  /\ request' = UseCaseRequest("execute_with_validation", yyyymm,
                                            customer_code, program_code, service_raises)
               /\ response' = [kind |-> "returned", value |-> out.value]
               /\ trace' = out.calls
    /\ UNCHANGED repo
    /\ UNCHANGED engine_vars

NextUseCase == Execute \/ ExecuteWithValidation

InitUseCase ==
    /\ repo = [kind |-> "use_case"]
    /\ request = [op |-> "none"]
    /\ response = [kind |-> "none"]
    /\ trace = <<>>
    /\ EngineIdle

SpecUseCase == InitUseCase /\ [][NextUseCase]_vars

(***************************************************************************)
(* Claims about EvaluateCustomerUseCase                                    *)
(***************************************************************************)
\* the text without the blanks at either end, told from the text alone
Stripped(code) ==
    CHOOSE s \in SeqUpTo(Chars, Len(code)) :
        /\ \E a, b \in 0..Len(code) :
               /\ a + b + Len(s) = Len(code)
               /\ s = SubSeq(code, a + 1, a + Len(s))
               /\ \A i \in 1..a : code[i] = " "
               /\ \A i \in (a + Len(s) + 1)..Len(code) : code[i] = " "
        /\ s # <<>> => s[1] # " " /\ s[Len(s)] # " "

OnlyBlanks(code) == \A i \in DOMAIN code : code[i] = " "

InvalidArguments ==
    \/ OnlyBlanks(request.customer_code)
    \/ OnlyBlanks(request.program_code)
    \/ request.yyyymm \notin MinYyyymm..MaxYyyymm

\* C27: execute raises ValueError, without invoking the evaluation service,
\* when customer_code or program_code is empty or whitespace-only or when
\* yyyymm is outside 202001..999912; otherwise it calls the service exactly
\* once, with the codes stripped.  execute_with_validation never lets an
\* exception out: it returns success false with error 'Validation Error' for
\* a ValueError and 'System Error' for any other exception.
C27_ValidationAndErrors ==
    /\ request.op = "execute" =>
           IF InvalidArguments
           THEN /\ response = [kind |-> "raised", exception |-> "ValueError"]
                /\ trace = <<>>
           ELSE /\ trace = <<ServiceCall(request.yyyymm,
                                         Stripped(request.customer_code),
                                         Stripped(request.program_code))>>
                /\ response.exception = request.service_raises
    /\ request.op = "execute_with_validation" =>
           /\ response.kind = "returned"
           /\ IF InvalidArguments
              THEN /\ response.value = [success |-> FALSE, error |-> "Validation Error"]
                   /\ trace = <<>>
              ELSE /\ Len(trace) = 1
                   /\ request.service_raises = "none" => response.value.success
                   /\ request.service_raises = "ValueError" =>
                          response.value = [success |-> FALSE, error |-> "Validation Error"]
                   /\ request.service_raises = "RuntimeError" =>
                          response.value = [success |-> FALSE, error |-> "System Error"]

\* valid arguments with blanks around a code, and a service that fails with
\* an exception other than ValueError
C27_Witness ==
    /\ request.op = "execute_with_validation"
    /\ request.yyyymm = MaxYyyymm
    /\ request.customer_code = <<" ", "A">>
    /\ request.program_code = <<"A", " ">>
    /\ request.service_raises = "RuntimeError"
    /\ trace = <<ServiceCall(MaxYyyymm, <<"A">>, <<"A">>)>>
    /\ response.value = [success |-> FALSE, error |-> "System Error"]

(***************************************************************************)
(* EvaluationService.evaluate_customer                                     *)
(* (src/src/domain/services/evaluation_service.py) over the repositories   *)
(* of src/src/infrastructure/repositories.  repo holds the month's rows of *)
(* the evaluated customer in the order of the ORDER BY clauses:            *)
(*   registrations     [program_code, display_type, status]                *)
(*   register_items    [program_code, item, type_code]                     *)
(*   condition_groups  [program_code, group, type_code, group_point]       *)
(*   condition_items   [program_code, group, condition_code,               *)
(*                      condition_min_value, condition_point]              *)
(*   audit_results     [condition_code, value]                             *)
(*   stored            program_code -> the stored result of the customer   *)
(* Here numeric_value is int(value), which raises ValueError for a text    *)
(* that is no integer; the exception leaves evaluate_customer.             *)
(* save_evaluation_result returns False when the database refuses the      *)
(* MERGE, and the service does not look at what it returns.                *)
(***************************************************************************)
ProgramTypes == {"TYPE_BEVERAGE", "TYPE_SNACK"}

Failed(reason, condition_code, group, actual_value, required) ==
    [reason |-> reason, condition_code |-> condition_code, group |-> group,
     actual_value |-> actual_value, required |-> required]

\* AuditPicture.numeric_value of the domain entity
int_value(value) ==
    IF value.kind = "number" /\ value.tenths % 10 = 0
    THEN [raises |-> FALSE, n |-> value.tenths \div 10]
    ELSE [raises |-> TRUE, n |-> 0]

get_register_item(register_items, program_code, display_type) ==
    SelectSeq(register_items,
              LAMBDA r : r.program_code = program_code /\ r.item = display_type)

get_condition_groups(condition_groups, program_code, type_code) ==
    SelectSeq(condition_groups,
              LAMBDA g : g.program_code = program_code /\ g.type_code = type_code)

get_condition_items_by_group(condition_items, program_code, group) ==
    SelectSeq(condition_items,
              LAMBDA c : c.program_code = program_code /\ c.group = group)

\* the for loop over the items of one group
RECURSIVE ItemLoop(_, _, _, _)
ItemLoop(group_items, i, audit_dict, acc) ==
    IF i > Len(group_items) \/ acc.raised THEN acc
    ELSE LET item == group_items[i]
             counted == [acc EXCEPT
                            !.max_possible_points = @ + item.condition_point]
         IN  IF item.condition_code \notin DOMAIN audit_dict
             THEN ItemLoop(group_items, i + 1, audit_dict,
                      [counted EXCEPT !.failed_conditions =
                          Append(@, Failed("NOT_AUDITED", item.condition_code,
                                           item.group, 0, item.condition_min_value))])
             ELSE LET actual == int_value(audit_dict[item.condition_code].value)
                  IN  IF actual.raises
                      THEN [counted EXCEPT !.raised = TRUE]
                      ELSE IF meets_minimum(item, actual.n)
                      THEN ItemLoop(group_items, i + 1, audit_dict,
                               [counted EXCEPT
                                   !.group_score = @ + item.condition_point,
                                   !.total_points = @ + item.condition_point])
                      ELSE ItemLoop(group_items, i + 1, audit_dict,
                               [counted EXCEPT !.failed_conditions =
                                   Append(@, Failed("BELOW_MINIMUM", item.condition_code,
                                                    item.group, actual.n,
                                                    item.condition_min_value))])

\* the for loop over the condition groups
RECURSIVE ConditionGroupLoop(_, _, _, _, _, _)
ConditionGroupLoop(condition_groups, k, condition_items, program_code, audit_dict, acc) ==
    IF k > Len(condition_groups) \/ acc.raised THEN acc
    ELSE LET group == condition_groups[k]
             group_items ==
                 get_condition_items_by_group(condition_items, program_code, group.group)
             fetched == [acc EXCEPT
                            !.calls = Append(@, "get_condition_items_by_group")]
         IN  IF group_items = <<>>
             THEN ConditionGroupLoop(condition_groups, k + 1, condition_items,
                      program_code, audit_dict,
                      [fetched EXCEPT
                          !.failed_conditions =
                              Append(@, Failed("GROUP_NO_ITEMS", "", group.group, 0, 0)),
                          !.all_groups_passed = FALSE])
             ELSE LET done == ItemLoop(group_items, 1, audit_dict,
                                       [fetched EXCEPT !.group_score = 0])
                  IN  IF done.raised THEN done
                      ELSE IF done.group_score < group.group_point
                      THEN ConditionGroupLoop(condition_groups, k + 1, condition_items,
                               program_code, audit_dict,
                               [done EXCEPT
                                   !.all_groups_passed = FALSE,
                                   !.failed_conditions =
                                       Append(@, Failed("GROUP_INSUFFICIENT_POINTS", "",
                                                        group.group, done.group_score,
                                                        group.group_point))])
                      ELSE ConditionGroupLoop(condition_groups, k + 1, condition_items,
                               program_code, audit_dict, done)

\* a plausible slip: the early results are stored as well
EarlyExitSaved(calls, reason, registration_status) ==
    [calls |-> Append(calls, "save_evaluation_result"), raised |-> FALSE,
     saved |-> TRUE,
     result |-> EvaluationResult(0, 0, FALSE, <<Failed(reason, "", 0, 0, 0)>>,
                                 registration_status)]

\* one of the three early returns
EarlyExit(calls, reason, registration_status) ==
    [calls |-> calls, raised |-> FALSE, saved |-> FALSE,
     result |-> EvaluationResult(0, 0, FALSE, <<Failed(reason, "", 0, 0, 0)>>,
                                 registration_status)]

\* EvaluationService.evaluate_customer: the repository calls in order, whether
\* it raised, the result and whether the result was handed to
\* save_evaluation_result
EvaluationService_evaluate_customer(tables, program_code) ==
    LET registrations == get_registrations(tables.registrations, FALSE)
        at == FirstRegistration(registrations, program_code, 1)
    IN  IF at = 0
        THEN EarlyExit(<<"get_registrations">>, "NOT_REGISTERED", FALSE)
        ELSE
        LET program_registration == registrations[at]
            register_item ==
                get_register_item(tables.register_items, program_code,
                                  program_registration.display_type)
        IN  IF register_item = <<>>
            THEN EarlyExit(<<"get_registrations", "get_register_item">>,
                           "NO_REGISTER_ITEM_FOUND", is_active(program_registration))
            ELSE
            LET condition_groups ==
                    get_condition_groups(tables.condition_groups, program_code,
                                         register_item[1].type_code)
            IN  IF condition_groups = <<>>
                THEN EarlyExit(<<"get_registrations", "get_register_item",
                                 "get_condition_groups">>,
                               "NO_CONDITION_GROUPS_DEFINED",
                               is_active(program_registration))
                ELSE
                LET done ==
                        ConditionGroupLoop(condition_groups, 1, tables.condition_items,
                            program_code,
                            AuditDict(tables.audit_results, 1, EmptyDict),
                            [total_points |-> 0, max_possible_points |-> 0,
                             failed_conditions |-> <<>>, all_groups_passed |-> TRUE,
                             group_score |-> 0, raised |-> FALSE,
                             calls |-> <<"get_registrations", "get_register_item",
                                         "get_condition_groups", "get_audit_results">>])
                IN  IF done.raised
                    THEN [calls |-> done.calls, raised |-> TRUE, saved |-> FALSE,
                          result |-> EvaluationResult(0, 0, FALSE, <<>>, FALSE)]
                    ELSE [calls |-> Append(done.calls, "save_evaluation_result"),
                          raised |-> FALSE, saved |-> TRUE,
                          result |->
                              EvaluationResult(done.total_points,
                                  done.max_possible_points,
                                  done.all_groups_passed /\ done.failed_conditions = <<>>,
                                  done.failed_conditions,
                                  is_active(program_registration))]

\* one call of the service; the MERGE of save_evaluation_result succeeds or not
EvaluateAndSave ==
    /\ repo.kind = "evaluation"
    /\ response.kind = "none"
    /\ \E program_code \in Programs, save_ok \in BOOLEAN :
           LET out == EvaluationService_evaluate_customer(repo, program_code)
           IN  /\ request' = [op |-> "evaluate_customer", program_code |-> program_code,
                              save_ok |-> save_ok]
               /\ response' = IF out.raised
                              THEN [kind |-> "raised", exception |-> "ValueError"]
                              ELSE [kind |-> "returned", result |-> out.result]
               /\ trace' = out.calls
               /\ repo' = [repo EXCEPT !.stored =
                              IF out.saved /\ save_ok
                              THEN DictSet(@, program_code, out.result) ELSE @]
    /\ UNCHANGED engine_vars

NextEvaluation == EvaluateAndSave

\* largest group_point
MaxGroupPoint == 2
\* largest condition_point
MaxItemPoint == 2

\* no row or one row of S
Optional(S) == {<<>>} \cup {<<row>> : row \in S}

GroupItemRows(group, condition_code) ==
    [program_code : {"PROG001"}, group : {group}, condition_code : {condition_code},
     condition_min_value : {1}, condition_point : 1..MaxItemPoint]

\* nothing on this path checks condition_point: a row may carry a negative one
NegativePointRows(group, condition_code) ==
    [program_code : {"PROG001"}, group : {group}, condition_code : {condition_code},
     condition_min_value : {1}, condition_point : {-1}]

\* "0", "1", ..., and "1.5", which is no integer
IntegerAuditValues ==
    {[kind |-> "number", tenths |-> 10 * u] : u \in 0..MaxAuditValue}
    \cup {[kind |-> "number", tenths |-> 15]}

\* a result stored by an earlier evaluation
StoredBefore == EvaluationResult(1, 1, TRUE, <<>>, TRUE)

\* PROG001 may be configured for KE_3_O, with up to two condition groups of up
\* to two and one items, the second group of either program type; PROG002 has
\* no configuration
InitEvaluation ==
    /\ \E r1 \in Optional([program_code : {"PROG001"}, display_type : {"KE_3_O"},
                           status : BOOLEAN]),
          r2 \in Optional([program_code : {"PROG002"}, display_type : {"KE_3_O"},
                           status : {TRUE}]),
          ri \in Optional([program_code : {"PROG001"}, item : {"KE_3_O"},
                           type_code : {"TYPE_BEVERAGE"}]),
          g1 \in Optional([program_code : {"PROG001"}, group : {1},
                           type_code : {"TYPE_BEVERAGE"},
                           group_point : 1..MaxGroupPoint]),
          g2 \in Optional([program_code : {"PROG001"}, group : {2},
                           type_code : ProgramTypes, group_point : {1}]),
          i11 \in Optional(GroupItemRows(1, "CLEANLINESS")),
          i12 \in Optional(GroupItemRows(1, "PRODUCT_AVAILABILITY")
                           \cup NegativePointRows(1, "PRODUCT_AVAILABILITY")),
          i21 \in Optional({row \in GroupItemRows(2, "CLEANLINESS") :
                               row.condition_point = 1}),
          a1 \in Optional([condition_code : {"CLEANLINESS"}, value : IntegerAuditValues]),
          a2 \in Optional([condition_code : {"PRODUCT_AVAILABILITY"},
                           value : IntegerAuditValues]),
          stored \in {EmptyDict, [p \in {"PROG001"} |-> StoredBefore]} :
           repo = [kind |-> "evaluation",
                   registrations |-> r1 \o r2,
                   register_items |-> ri,
                   condition_groups |-> g1 \o g2,
                   condition_items |-> i11 \o i12 \o i21,
                   audit_results |-> a1 \o a2,
                   stored |-> stored]
    /\ request = [op |-> "none"]
    /\ response = [kind |-> "none"]
    /\ trace = <<>>
    /\ EngineIdle

SpecEvaluation == InitEvaluation /\ [][NextEvaluation]_vars

(***************************************************************************)
(* Claims about EvaluationService.evaluate_customer                        *)
(***************************************************************************)
Rows(table) == {table[i] : i \in DOMAIN table}

\* the type codes configured for the program and the display type of the
\* registration the customer's rows give first for the program
ConfiguredTypes(program_code) ==
    IF RegistrationsFor(program_code) = {} THEN {}
    ELSE {r.type_code : r \in
             {x \in Rows(repo.register_items) :
                 /\ x.program_code = program_code
                 /\ x.item = RegistrationFound(program_code).display_type}}

\* the condition groups the evaluation is about
GroupsEvaluated(program_code) ==
    {g \in Rows(repo.condition_groups) :
        g.program_code = program_code /\ g.type_code \in ConfiguredTypes(program_code)}

ItemsOfGroup(g) ==
    {c \in Rows(repo.condition_items) :
        c.program_code = g.program_code /\ c.group = g.group}

\* the customer has an audit result for the item's condition that is an
\* integer of at least the item's minimum
AuditMeets(c) ==
    \E a \in Rows(repo.audit_results) :
        /\ a.condition_code = c.condition_code
        /\ a.value.kind = "number"
        /\ a.value.tenths % 10 = 0
        /\ a.value.tenths >= 10 * c.condition_min_value

RECURSIVE SumPoints(_)
SumPoints(items) ==
    IF items = {} THEN 0
    ELSE LET c == CHOOSE x \in items : TRUE
         IN  c.condition_point + SumPoints(items \ {c})

Earned(g) == SumPoints({c \in ItemsOfGroup(g) : AuditMeets(c)})

ServiceEvaluated == repo.kind = "evaluation" /\ Evaluated

\* meets_criteria only if every group has an item, every item is audited at
\* its minimum or above and every group has earned its group_point; one item
\* that is not makes it false
MeetsCriteriaOnlyIfAllMet ==
    ServiceEvaluated =>
        /\ response.result.meets_criteria =>
               \A g \in GroupsEvaluated(request.program_code) :
                   /\ ItemsOfGroup(g) # {}
                   /\ \A c \in ItemsOfGroup(g) : AuditMeets(c)
                   /\ Earned(g) >= g.group_point
        /\ (\E g \in GroupsEvaluated(request.program_code) :
               \E c \in ItemsOfGroup(g) : ~AuditMeets(c)) =>
               ~response.result.meets_criteria

PointsWithinMaximum ==
    ServiceEvaluated =>
        response.result.total_points <= response.result.max_possible_points

\* C29: meets_criteria is true only if every condition group has at least one
\* item, every item of every group has an audit result meeting its minimum
\* and each group's earned points are at least its group_point; one item that
\* is unaudited or below its minimum makes meets_criteria false whatever the
\* group has earned; total_points never exceeds max_possible_points.
C29_NoPartialCredit == MeetsCriteriaOnlyIfAllMet /\ PointsWithinMaximum

\* every group has earned its points and one item was not audited: the only
\* failed condition is that item
EarnedButNotAudited ==
    /\ ServiceEvaluated
    /\ GroupsEvaluated(request.program_code) # {}
    /\ \A g \in GroupsEvaluated(request.program_code) : Earned(g) >= g.group_point
    /\ Len(response.result.failed_conditions) = 1
    /\ response.result.failed_conditions[1].reason = "NOT_AUDITED"
    /\ ~response.result.meets_criteria

\* the evaluation ends at one of the three early returns
EarlyExitCase(program_code) ==
    \/ RegistrationsFor(program_code) = {}
    \/ ConfiguredTypes(program_code) = {}
    \/ GroupsEvaluated(program_code) = {}

\* C30: the result is handed to save_evaluation_result exactly once and only
\* on the full evaluation path, as the last call, after the items of every
\* group were fetched; on the early exits NOT_REGISTERED,
\* NO_REGISTER_ITEM_FOUND and NO_CONDITION_GROUPS_DEFINED nothing is saved and
\* the stored results are left as they were.
C30_SavedOnFullPathOnly ==
    [][(repo.kind = "evaluation" /\ request'.op = "evaluate_customer") =>
          LET p == request'.program_code
              saves == Count(trace', "save_evaluation_result")
          IN  /\ saves <= 1
              /\ EarlyExitCase(p) =>
                     /\ response'.kind = "returned"
                     /\ response'.result.failed_conditions[1].reason \in
                            {"NOT_REGISTERED", "NO_REGISTER_ITEM_FOUND",
                             "NO_CONDITION_GROUPS_DEFINED"}
                     /\ saves = 0
              /\ (~EarlyExitCase(p) /\ response'.kind = "returned") =>
                     /\ saves = 1
                     /\ trace'[Len(trace')] = "save_evaluation_result"
                     /\ Count(trace', "get_condition_items_by_group") =
                            Cardinality(GroupsEvaluated(p))
                     /\ request'.save_ok =>
                            repo'.stored = DictSet(repo.stored, p, response'.result)
              /\ response'.kind = "raised" => saves = 0
              /\ (saves = 0 \/ ~request'.save_ok) => repo'.stored = repo.stored
    ]_vars

\* a registered customer whose display type is not configured, with a result
\* stored by an earlier evaluation: the stored result is still there
C30_Witness ==
    /\ ServiceEvaluated
    /\ request.program_code = "PROG001"
    /\ Len(response.result.failed_conditions) = 1
    /\ response.result.failed_conditions[1].reason = "NO_REGISTER_ITEM_FOUND"
    /\ response.result.registration_status
    /\ Count(trace, "save_evaluation_result") = 0
    /\ repo.stored = [p \in {"PROG001"} |-> StoredBefore]

====
